---- MODULE Spec2Model ----
(***************************************************************************)
(* agent-backup: the backup codec (AgentBackup.export / AgentBackup.import *)
(* and their helpers) over a small file system.                            *)
(*                                                                         *)
(* A path is a sequence of segments; the file system maps the absolute     *)
(* locations the modelled relative paths can name to a node: no entry, a   *)
(* directory, or a regular file with its text.                             *)
(***************************************************************************)
EXTENDS Integers, Sequences, FiniteSets, TLC

\* ---------------------------------------------------------------- bounds
\* Paths handed to one export call / records of one hand-written archive.
MaxPaths == 2
\* Entries (files or directories) present in the file system at the start.
MaxFiles == 2
\* Fingerprints taken in one behaviour.
MaxFingerprints == 3

\* ------------------------------------------------------- program constants
BACKUP_VERSION == "1.0"

\* JavaScript's null / undefined.
Null == "null"

\* ------------------------------------------------------------ input sets
Versions == {"1.0", "2.0"}
Names == {"", "Agent1"}
Emails == {"a@example.com"}
\* "" is the missing / empty password of the options object.
Passwords == {"", "p", "q"}
Contents == {"x", "y"}
Times == {"T1"}
Salts == {"s1", "s2"}

\* The export side's working directory and the import side's target.
Workdir == <<"w">>
TargetDir == <<"w", "t">>
\* Relative paths as the caller (or an archive) supplies them.
RelPaths == {<<"a">>, <<"b">>, <<"..", "a">>}

\* ------------------------------------------------------------ path module
RECURSIVE normalize(_, _)
\* path.normalize on an absolute path: "." is dropped, ".." pops a segment
\* and stays at the root when there is none.
normalize(done, rest) ==
  IF rest = <<>> THEN done
  ELSE LET s == Head(rest) IN
       IF s = "." THEN normalize(done, Tail(rest))
       ELSE IF s = ".."
            THEN normalize(IF done = <<>> THEN <<>> ELSE SubSeq(done, 1, Len(done) - 1),
                           Tail(rest))
            ELSE normalize(Append(done, s), Tail(rest))

\* path.resolve(workdir, path) for an absolute workdir and a relative path.
resolve(workdir, path) == normalize(<<>>, workdir \o path)

\* path.join(dir, path): the joined segments, normalized.
join(dir, path) == normalize(<<>>, dir \o path)

\* ------------------------------------------------------------ file system
Absent == "absent"
Dir == "dir"
Node == {Absent, Dir} \cup Contents

\* Every location a modelled path names, on either side.
Locs == {resolve(Workdir, p) : p \in RelPaths} \cup {join(TargetDir, p) : p \in RelPaths}

\* Locations inside the target directory.
InsideTarget(loc) ==
  /\ Len(loc) > Len(TargetDir)
  /\ SubSeq(loc, 1, Len(TargetDir)) = TargetDir

IsFile(fsys, loc) == loc \in DOMAIN fsys /\ fsys[loc] \in Contents

\* fs.readFile: succeeds on a regular file only (ENOENT, EISDIR otherwise).
readFileOk(fsys, loc) == IsFile(fsys, loc)

\* A directory and its ancestors, as far as the file system tracks them.
Ancestors(loc) == {SubSeq(loc, 1, n) : n \in 1..Len(loc)} \cap Locs

\* fs.mkdir(dir, {recursive: true}): fails when dir or one of its ancestors
\* is a regular file; otherwise every missing one becomes a directory.
mkdirOk(fsys, dir) == \A d \in Ancestors(dir) : fsys[d] \notin Contents

mkdir(fsys, dir) ==
  [l \in DOMAIN fsys |-> IF l \in Ancestors(dir) /\ fsys[l] = Absent THEN Dir ELSE fsys[l]]

\* fs.writeFile(path, content): fails on a directory (EISDIR).
writeFileOk(fsys, loc) == loc \in DOMAIN fsys /\ fsys[loc] # Dir

\* fs.appendFile in the place of fs.writeFile: an existing file keeps its
\* text and gets the new text after it ("x+" stands for that longer text).
appendFile(fsys, loc, content) ==
  [fsys EXCEPT ![loc] = IF fsys[loc] \in Contents THEN "x+" ELSE content]

writeFile(fsys, loc, content) == [fsys EXCEPT ![loc] = content]

\* ------------------------------------------------------------ constructor
\* new AgentBackup(options)
AgentBackup(workdir, encryption, password) ==
  [workdir |-> workdir,
   encryption |-> encryption,
   password |-> IF password = "" THEN Null ELSE password]

\* -------------------------------------------------------------- collector
RECURSIVE collectLoop(_, _, _, _)
\* The for-loop shared by _collectCredentials and _collectMemory.
collectLoop(self, fsys, paths, now) ==
  IF paths = <<>> THEN <<>>
  ELSE LET path == Head(paths)
           fullPath == resolve(self.workdir, path)
           rest == collectLoop(self, fsys, Tail(paths), now)
       IN IF readFileOk(fsys, fullPath)
          THEN <<[path |-> path, content |-> fsys[fullPath], updated |-> now]>> \o rest
          ELSE rest

PlainSection(files) ==
  [form |-> "plain", files |-> files, salt |-> Null, key |-> <<>>, data |-> <<>>]

\* A collector that gives up on the first unreadable path.
_collectCredentialsAllOrNothing(self, fsys, paths, now) ==
  PlainSection(IF \A i \in 1..Len(paths) : readFileOk(fsys, resolve(self.workdir, paths[i]))
               THEN collectLoop(self, fsys, paths, now)
               ELSE <<>>)

_collectCredentials(self, fsys, paths, now) ==
  PlainSection(collectLoop(self, fsys, paths, now))

_collectMemory(self, fsys, paths, now) ==
  PlainSection(collectLoop(self, fsys, paths, now))

\* ----------------------------------------------------------------- crypto
RECURSIVE stringifyFiles(_)
\* JSON.stringify of a section: its records, field after field.
stringifyFiles(files) ==
  IF files = <<>> THEN <<>>
  ELSE <<Head(files).path, Head(files).content, Head(files).updated>>
         \o stringifyFiles(Tail(files))

RECURSIVE parseFilesSwapped(_)
\* A parse that reads the fields of a record in the wrong order.
parseFilesSwapped(text) ==
  IF Len(text) < 3 THEN <<>>
  ELSE <<[path |-> text[1], content |-> text[3], updated |-> text[2]]>>
         \o parseFilesSwapped(SubSeq(text, 4, Len(text)))

RECURSIVE parseFiles(_)
\* JSON.parse of that text.
parseFiles(text) ==
  IF Len(text) < 3 THEN <<>>
  ELSE <<[path |-> text[1], content |-> text[2], updated |-> text[3]]>>
         \o parseFiles(SubSeq(text, 4, Len(text)))

\* sha256(password + salt.toString('hex')): one key per (password, salt).
_deriveKey(password, salt) == <<password, salt>>

\* AES-256-GCM under the derived key: the ciphertext and its tag open only
\* under the key that made them.
_encrypt(self, section, salt) ==
  [form |-> "encrypted",
   files |-> <<>>,
   salt |-> salt,
   key |-> _deriveKey(self.password, salt),
   data |-> stringifyFiles(section.files)]

\* A decryption that never checks the authentication tag.
_decryptOkAnyKey(self, section) == section.form = "encrypted"

\* decipher.final() throws unless the tag authenticates under the key.
_decryptOk(self, section) ==
  /\ section.form = "encrypted"
  /\ _deriveKey(self.password, section.salt) = section.key

_decrypt(self, section) == PlainSection(parseFiles(section.data))

\* ----------------------------------------------------------------- export
\* An export that forgets to encrypt the memory section.
exportCredentialsOnly(self, fsys, name, email, credentialsPaths, memoryPaths, now, salt1, salt2) ==
  LET backup ==
        [version |-> BACKUP_VERSION,
         exported |-> now,
         agent |-> [name |-> name, email |-> email, created |-> now],
         credentials |-> _collectCredentials(self, fsys, credentialsPaths, now),
         memory |-> _collectMemory(self, fsys, memoryPaths, now),
         encrypted |-> FALSE]
  IN IF self.encryption /\ self.password # Null
     THEN [backup EXCEPT !.credentials = _encrypt(self, @, salt1),
                         !.encrypted = TRUE]
     ELSE backup

\* AgentBackup.export: never throws; returns the archive.
export(self, fsys, name, email, credentialsPaths, memoryPaths, now, salt1, salt2) ==
  LET backup ==
        [version |-> BACKUP_VERSION,
         exported |-> now,
         agent |-> [name |-> name, email |-> email, created |-> now],
         credentials |-> _collectCredentials(self, fsys, credentialsPaths, now),
         memory |-> _collectMemory(self, fsys, memoryPaths, now),
         encrypted |-> FALSE]
  IN IF self.encryption /\ self.password # Null
     THEN [backup EXCEPT !.credentials = _encrypt(self, @, salt1),
                         !.memory = _encrypt(self, @, salt2),
                         !.encrypted = TRUE]
     ELSE backup

\* ----------------------------------------------------------------- import
ErrVersion == "Unsupported backup version"
ErrNoPassword == "Backup is encrypted but no password provided"
ErrAuth == "Unsupported state or unable to authenticate data"
ErrArgType == "ERR_INVALID_ARG_TYPE"
ErrEEXIST == "EEXIST"
ErrEISDIR == "EISDIR"

\* What one decryption attempt throws, Null when it succeeds.
decryptError(self, section) ==
  IF section.form # "encrypted" THEN ErrArgType
  ELSE IF _decryptOk(self, section) THEN Null
  ELSE ErrAuth

\* credentials.files / memory.files is an array exactly in the plain form.
hasFiles(section) == section.form = "plain"

RECURSIVE restoreLoop(_, _, _, _, _)
\* One of the two restore loops of import. st carries the file system, the
\* log of writes and the error thrown so far (Null: none).
restoreLoop(files, dir, overwrite, kind, st) ==
  IF files = <<>> \/ st.error # Null THEN st
  ELSE LET file == Head(files)
           path == join(dir, file.path)
           parent == join(path, <<"..">>)
       IN IF ~overwrite /\ readFileOk(st.fs, path)
          THEN restoreLoop(Tail(files), dir, overwrite, kind,
                           [st EXCEPT !.skipped = Append(@, <<kind, path>>)])
          ELSE IF ~mkdirOk(st.fs, parent)
          THEN [st EXCEPT !.error = ErrEEXIST]
          ELSE IF ~writeFileOk(mkdir(st.fs, parent), path)
          THEN [st EXCEPT !.fs = mkdir(st.fs, parent), !.error = ErrEISDIR]
          ELSE restoreLoop(Tail(files), dir, overwrite, kind,
                           [st EXCEPT !.fs = writeFile(mkdir(st.fs, parent), path, file.content),
                                      !.written = Append(@, <<kind, path, file.content>>)])

Thrown(fsys, error, decrypts) ==
  [status |-> "error", error |-> error, fs |-> fsys, decrypts |-> decrypts,
   written |-> <<>>, skipped |-> <<>>,
   agent |-> [name |-> Null, email |-> Null, created |-> Null],
   restored |-> [credentials |-> 0, memory |-> 0]]

\* The two restore loops in the other order: memory first.
importRestoreMemoryFirst(self, backup, overwrite, dir, fsys, credentials, memory, decrypts) ==
  LET st0 == [fs |-> fsys, error |-> Null, written |-> <<>>, skipped |-> <<>>]
      st1 == IF hasFiles(memory)
             THEN restoreLoop(memory.files, dir, overwrite, "memory", st0)
             ELSE st0
      st2 == IF st1.error = Null /\ hasFiles(credentials)
             THEN restoreLoop(credentials.files, dir, overwrite, "credentials", st1)
             ELSE st1
  IN IF st2.error # Null
     THEN [Thrown(st2.fs, st2.error, decrypts) EXCEPT !.written = st2.written,
                                                      !.skipped = st2.skipped]
     ELSE [status |-> "ok", error |-> Null, fs |-> st2.fs, decrypts |-> decrypts,
           written |-> st2.written, skipped |-> st2.skipped,
           agent |-> backup.agent,
           restored |-> [credentials |-> IF hasFiles(credentials)
                                         THEN Len(credentials.files) ELSE 0,
                         memory |-> IF hasFiles(memory) THEN Len(memory.files) ELSE 0]]

\* import, lines 273-311: both restore loops, then the summary.
importRestore(self, backup, overwrite, dir, fsys, credentials, memory, decrypts) ==
  LET st0 == [fs |-> fsys, error |-> Null, written |-> <<>>, skipped |-> <<>>]
      st1 == IF hasFiles(credentials)
             THEN restoreLoop(credentials.files, dir, overwrite, "credentials", st0)
             ELSE st0
      st2 == IF st1.error = Null /\ hasFiles(memory)
             THEN restoreLoop(memory.files, dir, overwrite, "memory", st1)
             ELSE st1
  IN IF st2.error # Null
     THEN [Thrown(st2.fs, st2.error, decrypts) EXCEPT !.written = st2.written,
                                                      !.skipped = st2.skipped]
     ELSE [status |-> "ok", error |-> Null, fs |-> st2.fs, decrypts |-> decrypts,
           written |-> st2.written, skipped |-> st2.skipped,
           agent |-> backup.agent,
           restored |-> [credentials |-> IF hasFiles(credentials)
                                         THEN Len(credentials.files) ELSE 0,
                         memory |-> IF hasFiles(memory) THEN Len(memory.files) ELSE 0]]

\* The decryption stage without its password check.
importDecryptNoPasswordCheck(self, backup, overwrite, dir, fsys) ==
  IF ~backup.encrypted
  THEN importRestore(self, backup, overwrite, dir, fsys, backup.credentials, backup.memory, 0)
  ELSE IF decryptError(self, backup.credentials) # Null
  THEN Thrown(fsys, decryptError(self, backup.credentials), 1)
  ELSE IF decryptError(self, backup.memory) # Null
  THEN Thrown(fsys, decryptError(self, backup.memory), 2)
  ELSE importRestore(self, backup, overwrite, dir, fsys,
                     _decrypt(self, backup.credentials), _decrypt(self, backup.memory), 2)

\* import, lines 261-271: the password check and the two decryptions, both
\* before the first write.
importDecrypt(self, backup, overwrite, dir, fsys) ==
  IF ~backup.encrypted
  THEN importRestore(self, backup, overwrite, dir, fsys, backup.credentials, backup.memory, 0)
  ELSE IF self.password = Null THEN Thrown(fsys, ErrNoPassword, 0)
  ELSE IF decryptError(self, backup.credentials) # Null
  THEN Thrown(fsys, decryptError(self, backup.credentials), 1)
  ELSE IF decryptError(self, backup.memory) # Null
  THEN Thrown(fsys, decryptError(self, backup.memory), 2)
  ELSE importRestore(self, backup, overwrite, dir, fsys,
                     _decrypt(self, backup.credentials), _decrypt(self, backup.memory), 2)

\* An import that does not look at the version.
importNoVersionGate(self, backup, overwrite, targetDir, fsys) ==
  importDecrypt(self, backup, overwrite,
                IF targetDir # <<>> THEN targetDir ELSE self.workdir, fsys)

\* AgentBackup.import(backup, {overwrite, targetDir}) run on fsys: the final
\* file system, and the summary returned or the error thrown. An empty
\* targetDir stands for the option left out.
import(self, backup, overwrite, targetDir, fsys) ==
  IF backup.version # BACKUP_VERSION THEN Thrown(fsys, ErrVersion, 0)
  ELSE importDecrypt(self, backup, overwrite,
                     IF targetDir # <<>> THEN targetDir ELSE self.workdir, fsys)

\* ------------------------------------------------------------ fingerprint
\* One member of the text JSON.stringify makes of an object: the key and
\* the value, nothing at all when the value is undefined.
member(key, value) == IF value = Null THEN <<>> ELSE <<key, value>>

\* JSON.stringify({agent: backup.agent, exported: backup.exported}), as the
\* sequence of its tokens: the members of agent in the order the object
\* holds them, then exported. No other field of the archive is read.
stringifyIdentity(backup) ==
  <<"{", "agent", "{">>
  \o member("name", backup.agent.name)
  \o member("email", backup.agent.email)
  \o member("created", backup.agent.created)
  \o <<"}">>
  \o member("exported", backup.exported)
  \o <<"}">>

\* createHash('sha256').update(data).digest('hex').slice(0, 16): the digest
\* is a value that stands for the text hashed, so two digests are equal
\* exactly when the two texts are (a collision of the 64 bits kept is
\* outside the model).
sha256hex16(data) == <<"sha256", data>>

\* A fingerprint that leaves the export timestamp out.
fingerprintOfAgentOnly(backup) ==
  sha256hex16(stringifyIdentity([backup EXCEPT !.exported = Null]))

\* static AgentBackup.fingerprint(backup)
fingerprint(backup) == sha256hex16(stringifyIdentity(backup))

\* ------------------------------------------------------------------ state
VARIABLES
  fs,       \* the file system
  archive,  \* the archive the caller keeps: <<>> or <<backup>>
  exp,      \* the export call that made it, <<>> when there was none
  imp,      \* the import calls made, in order
  fps       \* the fingerprints taken, in order, each with its archive

vars == <<fs, archive, exp, imp, fps>>

\* Sequences over S of length at most n.
SeqUpTo(S, n) == UNION {[1..k -> S] : k \in 0..n}

\* Where an import reads and writes.
TargetLocs == {join(TargetDir, p) : p \in RelPaths}

\* File systems with at most MaxFiles entries, all of them in L.
FSWithin(L) ==
  {f \in [Locs -> Node] :
     /\ \A l \in Locs \ L : f[l] = Absent
     /\ Cardinality({l \in L : f[l] # Absent}) <= MaxFiles}

\* Any file system of at most MaxFiles entries; no archive yet.
Init ==
  /\ fs \in FSWithin(Locs)
  /\ archive = <<>>
  /\ exp = <<>>
  /\ imp = <<>>
  /\ fps = <<>>

\* Before the import of a hand-written archive: the entries are where an
\* import looks (it never reads or writes another location).
InitImport ==
  /\ fs \in FSWithin(TargetLocs)
  /\ archive = <<>>
  /\ exp = <<>>
  /\ imp = <<>>
  /\ fps = <<>>

\* new AgentBackup({workdir, encryption, password}).export({...}); the
\* two path lists are the two parts of one list of at most MaxPaths paths.
\* A behaviour makes one archive (exported or hand-written) and imports it
\* once. Every new Date() of one call reads the same instant, now.
Export ==
  /\ archive = <<>>
  /\ \E encryption \in BOOLEAN, password \in Passwords \ {"q"}, name \in Names,
        email \in Emails, now \in Times, paths \in SeqUpTo(RelPaths, MaxPaths) :
       \E k \in 0..Len(paths), salt1 \in Salts, salt2 \in Salts :
         LET credentialsPaths == SubSeq(paths, 1, k)
             memoryPaths == SubSeq(paths, k + 1, Len(paths))
             self == AgentBackup(Workdir, encryption, password)
         IN /\ archive' = <<export(self, fs, name, email, credentialsPaths, memoryPaths,
                                   now, salt1, salt2)>>
            /\ exp' = <<[encryption |-> encryption, password |-> password, name |-> name,
                         credentialsPaths |-> credentialsPaths,
                         memoryPaths |-> memoryPaths,
                         fs |-> fs, status |-> "ok"]>>
  /\ UNCHANGED <<fs, imp, fps>>

\* Records a hand-written archive can hold.
Records == [path : RelPaths, content : Contents, updated : Times]

\* The caller writes an archive by hand (as the overwrite test does): any
\* version, any encrypted flag, at most MaxPaths records in plain sections.
Craft ==
  /\ archive = <<>>
  /\ \E version \in Versions, encrypted \in BOOLEAN, name \in Names \ {""},
        email \in Emails, now \in Times, files \in SeqUpTo(Records, MaxPaths) :
       \E k \in 0..Len(files) :
         archive' = <<[version |-> version,
                       exported |-> now,
                       agent |-> [name |-> name, email |-> email, created |-> now],
                       credentials |-> PlainSection(SubSeq(files, 1, k)),
                       memory |-> PlainSection(SubSeq(files, k + 1, Len(files))),
                       encrypted |-> encrypted]>>
  /\ UNCHANGED <<fs, exp, imp, fps>>

\* new AgentBackup({workdir, password}).import(archive, {overwrite, targetDir})
Import ==
  /\ archive # <<>>
  /\ imp = <<>>
  /\ \E password \in Passwords, overwrite \in BOOLEAN :
       \E out \in {import(AgentBackup(TargetDir, FALSE, password), archive[1],
                          overwrite, TargetDir, fs)} :
         /\ fs' = out.fs
         /\ imp' = <<[password |-> password, overwrite |-> overwrite, pre |-> fs,
                      status |-> out.status, error |-> out.error,
                      decrypts |-> out.decrypts, written |-> out.written,
                      skipped |-> out.skipped, agent |-> out.agent,
                      restored |-> out.restored]>>
  /\ UNCHANGED <<archive, exp, fps>>

\* The same import once more: the codec, archive and options of the first
\* one, after it returned its summary.
Reimport ==
  /\ Len(imp) = 1
  /\ imp[1].status = "ok"
  /\ \E out \in {import(AgentBackup(TargetDir, FALSE, imp[1].password), archive[1],
                         imp[1].overwrite, TargetDir, fs)} :
       /\ fs' = out.fs
       /\ imp' = Append(imp, [password |-> imp[1].password,
                              overwrite |-> imp[1].overwrite, pre |-> fs,
                              status |-> out.status, error |-> out.error,
                              decrypts |-> out.decrypts, written |-> out.written,
                              skipped |-> out.skipped, agent |-> out.agent,
                              restored |-> out.restored])
  /\ UNCHANGED <<archive, exp, fps>>

\* The export instants of the archives fingerprinted.
Instants == {"T1", "T2"}

\* The identity blocks fingerprinted: as the fingerprint test writes them
\* (no created member) and as export writes them.
Identities ==
  {[name |-> n, email |-> e, created |-> c] :
     n \in Names \ {""}, e \in Emails, c \in {Null} \cup Times}

\* The archives fingerprinted: any version, instant and encrypted flag, one
\* of the identities, with or without a record in the credentials section.
FingerprintInputs ==
  {[version |-> version, exported |-> exported, agent |-> agent,
    credentials |-> PlainSection(files), memory |-> PlainSection(<<>>),
    encrypted |-> encrypted] :
     version \in Versions, exported \in Instants, agent \in Identities,
     encrypted \in BOOLEAN, files \in SeqUpTo({r \in Records : r.path = <<"a">> /\ r.content = "x"}, 1)}

\* AgentBackup.fingerprint(backup) on one more archive.
Fingerprint ==
  /\ Len(fps) < MaxFingerprints
  /\ \E backup \in FingerprintInputs :
       fps' = Append(fps, [backup |-> backup, fingerprint |-> fingerprint(backup)])
  /\ UNCHANGED <<fs, archive, exp, imp>>

\* Nothing on disk, no archive kept: fingerprint reads its argument only.
InitFingerprint ==
  /\ fs = [l \in Locs |-> Absent]
  /\ archive = <<>>
  /\ exp = <<>>
  /\ imp = <<>>
  /\ fps = <<>>

\* Export, then import of the exported archive.
Next == Export \/ Import

Spec == Init /\ [][Next]_vars

\* Export alone.
SpecExport == Init /\ [][Export]_vars

\* Import of a hand-written archive.
SpecImport == InitImport /\ [][Craft \/ Import]_vars

\* Import of a hand-written archive, twice.
SpecReimport == InitImport /\ [][Craft \/ Import \/ Reimport]_vars

\* Fingerprints of up to MaxFingerprints archives.
SpecFingerprint == InitFingerprint /\ [][Fingerprint]_vars

\* ------------------------------------------------------------- properties
\* The archive exported or written by hand, which is the one imported.
Backup == archive[1]
ExportCall == exp[1]
ImportCall == imp[1]

\* The paths of an export call, credentials first.
AllPaths(x) == x.credentialsPaths \o x.memoryPaths

Distinct(s) == \A i, j \in 1..Len(s) : i # j => s[i] # s[j]

\* dir is a proper ancestor of loc.
Under(dir, loc) == Len(loc) > Len(dir) /\ SubSeq(loc, 1, Len(dir)) = dir

\* No entry inside the target directory.
TargetEmpty(fsys) == \A l \in Locs : Under(TargetDir, l) => fsys[l] = Absent

\* An export of readable files under pairwise distinct paths, imported into
\* an empty target with the export's password when the archive is encrypted.
RoundTripCase ==
  /\ exp # <<>>
  /\ imp # <<>>
  /\ Distinct(AllPaths(ExportCall))
  /\ \A i \in 1..Len(AllPaths(ExportCall)) :
       IsFile(ExportCall.fs, resolve(Workdir, AllPaths(ExportCall)[i]))
  /\ TargetEmpty(ImportCall.pre)
  /\ Backup.encrypted => ImportCall.password = ExportCall.password

\* Every collected file's text, as read by the export, is at targetDir/path.
RoundTripHolds ==
  \A i \in 1..Len(AllPaths(ExportCall)) :
    fs[join(TargetDir, AllPaths(ExportCall)[i])]
      = ExportCall.fs[resolve(Workdir, AllPaths(ExportCall)[i])]

\* C1 as stated: import(export(files)) leaves at targetDir/relativePath the
\* content read at export time, for every set of readable files with
\* pairwise distinct relative paths and an empty target directory,
\* encrypted or not.
C1_RoundTripAnyPath == RoundTripCase => RoundTripHolds

\* C1, amended: the same round trip for relative paths that stay inside the
\* directory they are resolved against (no ".." that leaves it): then every
\* collected file's content is at targetDir/relativePath after the import.
C1_RoundTrip ==
  (/\ RoundTripCase
   /\ \A i \in 1..Len(AllPaths(ExportCall)) :
        Under(TargetDir, join(TargetDir, AllPaths(ExportCall)[i])))
  => (ImportCall.status = "ok" /\ RoundTripHolds)

\* An encrypted archive of two files, one per section, restored into an
\* empty target.
C1_Witness ==
  /\ RoundTripCase
  /\ Backup.encrypted
  /\ Len(ExportCall.credentialsPaths) = 1
  /\ Len(ExportCall.memoryPaths) = 1
  /\ \A i \in 1..Len(AllPaths(ExportCall)) :
        Under(TargetDir, join(TargetDir, AllPaths(ExportCall)[i]))
  /\ fs[join(TargetDir, <<"a">>)] # fs[join(TargetDir, <<"b">>)]

\* The records an import of a plain archive walks, credentials first.
FilesOf(backup) == backup.credentials.files \o backup.memory.files

\* The import got past the version gate, the password check and decryption.
ReachedRestore(call) ==
  call.error \notin {ErrVersion, ErrNoPassword, ErrAuth, ErrArgType}

\* The last record of files that resolves to loc.
LastFor(files, loc) ==
  CHOOSE i \in 1..Len(files) :
    /\ join(TargetDir, files[i].path) = loc
    /\ \A j \in (i + 1)..Len(files) : join(TargetDir, files[j].path) # loc

\* Entries of a write log made for one section.
CountOf(log, kind) == Cardinality({i \in 1..Len(log) : log[i][1] = kind})

\* C2 as stated: for every record whose resolved target path already holds
\* a file, an import with overwrite=false leaves that file's content as it
\* was, and an import with overwrite=true leaves there the content of the
\* archive record for that path (the last one, when several name it).
C2_OverwriteProtection ==
  (imp # <<>> /\ ~Backup.encrypted /\ ReachedRestore(ImportCall))
  => \A i \in 1..Len(FilesOf(Backup)) :
       LET files == FilesOf(Backup)
           loc == join(TargetDir, files[i].path)
       IN IsFile(ImportCall.pre, loc)
          => IF ImportCall.overwrite
             THEN fs[loc] = files[LastFor(files, loc)].content
             ELSE fs[loc] = ImportCall.pre[loc]

\* C3 as stated: the summary's counts are the numbers of files written
\* during the import, per section; a skipped record is not counted.
C3_RestoredCountsAreWrites ==
  (imp # <<>> /\ ImportCall.status = "ok")
  => /\ ImportCall.restored.credentials = CountOf(ImportCall.written, "credentials")
     /\ ImportCall.restored.memory = CountOf(ImportCall.written, "memory")

\* An exported, encrypted archive imported with another (non-empty) password.
WrongPasswordCase ==
  /\ exp # <<>>
  /\ imp # <<>>
  /\ Backup.encrypted
  /\ ImportCall.password \notin {"", ExportCall.password}

\* C4: importing an encrypted archive with a password other than the
\* export's ends in the decryption (authentication) error, which is neither
\* the version error nor the missing-password error, and no file is created
\* or changed: nothing is written before both sections are decrypted.
C4_WrongPassword ==
  WrongPasswordCase
  => /\ ImportCall.status = "error"
     /\ ImportCall.error = ErrAuth
     /\ ImportCall.error \notin {ErrVersion, ErrNoPassword}
     /\ ImportCall.written = <<>>
     /\ fs = ImportCall.pre

\* A wrong password on an archive that holds a file the target lacks.
C4_Witness ==
  /\ WrongPasswordCase
  /\ Backup.credentials.data # <<>>
  /\ \E i \in 1..Len(AllPaths(ExportCall)) :
       /\ IsFile(ExportCall.fs, resolve(Workdir, AllPaths(ExportCall)[i]))
       /\ fs[join(TargetDir, AllPaths(ExportCall)[i])] = Absent

\* C5: import of an archive whose version is not exactly "1.0" fails with
\* the version error whatever the other fields, password and options are,
\* before any decryption and before any file is written.
C5_VersionGate ==
  (imp # <<>> /\ Backup.version # "1.0")
  => /\ ImportCall.status = "error"
     /\ ImportCall.error = ErrVersion
     /\ ImportCall.decrypts = 0
     /\ ImportCall.written = <<>>
     /\ fs = ImportCall.pre

\* A version "2.0" archive, not encrypted, with a record whose target is
\* free and overwrite on: nothing but the gate keeps the file from being
\* written.
C5_Witness ==
  /\ imp # <<>>
  /\ Backup.version = "2.0"
  /\ ~Backup.encrypted
  /\ ImportCall.overwrite
  /\ \E i \in 1..Len(FilesOf(Backup)) :
       fs[join(TargetDir, FilesOf(Backup)[i].path)] = Absent

\* An encrypted archive of the supported version, imported without password.
NoPasswordCase ==
  /\ imp # <<>>
  /\ Backup.version = "1.0"
  /\ Backup.encrypted
  /\ ImportCall.password = ""

\* C6: import of an archive (of the supported version) whose encrypted flag
\* is true, by a codec without password, fails with the missing-password
\* error before any decryption is attempted and before any file is written.
C6_PasswordRequired ==
  NoPasswordCase
  => /\ ImportCall.status = "error"
     /\ ImportCall.error = ErrNoPassword
     /\ ImportCall.decrypts = 0
     /\ ImportCall.written = <<>>
     /\ fs = ImportCall.pre

\* An exported encrypted archive that holds a file, imported without password.
C6_Witness ==
  /\ NoPasswordCase
  /\ exp # <<>>
  /\ Backup.credentials.form = "encrypted"
  /\ Backup.credentials.data # <<>>

\* C7 as stated: export with encryption requested and no (or an empty)
\* password fails with a configuration error and returns no archive.
C7_EncryptNeedsPassword ==
  (exp # <<>> /\ ExportCall.encryption /\ ExportCall.password = "")
  => ExportCall.status = "error"

\* C8 as stated: export with an empty identity name fails with a validation
\* error and returns no archive.
C8_NameRequired ==
  (exp # <<>> /\ ExportCall.name = "") => ExportCall.status = "error"

\* C9: in every archive returned by export, the encrypted flag is true
\* exactly when both sections are in the encrypted form, and the two
\* sections are never in different forms.
C9_EncryptedFlag ==
  exp # <<>>
  => LET b == Backup IN
     /\ b.encrypted <=> (b.credentials.form = "encrypted" /\ b.memory.form = "encrypted")
     /\ b.credentials.form = b.memory.form

\* An encrypted archive with a file in its memory section.
C9_Witness ==
  /\ exp # <<>>
  /\ Backup.encrypted
  /\ Backup.memory.data # <<>>

\* The paths of a list that name a regular file, in the list's order.
ReadablePaths(paths, fsys) ==
  SelectSeq(paths, LAMBDA p : IsFile(fsys, resolve(Workdir, p)))

\* The records of a section of an exported archive.
SectionFiles(section) ==
  IF section.form = "plain" THEN section.files ELSE parseFiles(section.data)

\* files is one record per readable path of paths, in order, under the path
\* as supplied and with the text the file held.
CollectedFrom(files, paths, fsys) ==
  /\ Len(files) = Len(ReadablePaths(paths, fsys))
  /\ \A i \in 1..Len(files) :
       /\ files[i].path = ReadablePaths(paths, fsys)[i]
       /\ files[i].content = fsys[resolve(Workdir, files[i].path)]

\* C10: each collector returns exactly one record per readable path of its
\* list, in input order, storing the path as supplied; an unreadable path is
\* left out and the export still succeeds with the other records.
C10_Collector ==
  exp # <<>>
  => /\ ExportCall.status = "ok"
     /\ CollectedFrom(SectionFiles(Backup.credentials),
                      ExportCall.credentialsPaths, ExportCall.fs)
     /\ CollectedFrom(SectionFiles(Backup.memory),
                      ExportCall.memoryPaths, ExportCall.fs)

\* A credentials list of an unreadable path followed by a readable one.
C10_Witness ==
  /\ exp # <<>>
  /\ Len(ExportCall.credentialsPaths) = 2
  /\ ~IsFile(ExportCall.fs, resolve(Workdir, ExportCall.credentialsPaths[1]))
  /\ IsFile(ExportCall.fs, resolve(Workdir, ExportCall.credentialsPaths[2]))
  /\ Len(SectionFiles(Backup.credentials)) = 1

\* The write each record of a plain archive asks for, in the stored order,
\* the credentials records first: section, target location, content.
WritesAsked(backup) ==
  [i \in 1..Len(backup.credentials.files) |->
     <<"credentials", join(TargetDir, backup.credentials.files[i].path),
       backup.credentials.files[i].content>>]
  \o [i \in 1..Len(backup.memory.files) |->
        <<"memory", join(TargetDir, backup.memory.files[i].path),
          backup.memory.files[i].content>>]

\* log is asked with some entries left out: the order is kept.
SubsequenceOf(log, asked) ==
  \E pos \in [1..Len(log) -> 1..Len(asked)] :
    /\ \A i \in 1..Len(log) : log[i] = asked[pos[i]]
    /\ \A i, j \in 1..Len(log) : i < j => pos[i] < pos[j]

\* C11: during an import every write for a credentials record comes before
\* every write for a memory record, and within each section the writes come
\* in the stored order of the records: the writes made, in the order they
\* were made, are the records' writes in stored order (credentials section
\* first) with the skipped or unreached ones left out.
C11_RestorationOrder ==
  (imp # <<>> /\ ~Backup.encrypted)
  => /\ SubsequenceOf(ImportCall.written, WritesAsked(Backup))
     /\ \A i, j \in 1..Len(ImportCall.written) :
          (ImportCall.written[i][1] = "credentials"
           /\ ImportCall.written[j][1] = "memory") => i < j

\* An import that wrote a credentials record and a memory record, at two
\* places and with two contents.
C11_Witness ==
  /\ imp # <<>>
  /\ ~Backup.encrypted
  /\ Len(ImportCall.written) = 2
  /\ ImportCall.written[1][1] = "credentials"
  /\ ImportCall.written[2][1] = "memory"
  /\ ImportCall.written[1][2] # ImportCall.written[2][2]
  /\ ImportCall.written[1][3] # ImportCall.written[2][3]

\* C12 as stated: a record whose relative path resolves outside the target
\* directory (through ".." segments) is rejected for that file and nothing
\* is written outside the target directory: after any import every
\* location created or changed lies inside targetDir, and no write was made
\* to a location outside it.
C12_NoPathEscape ==
  imp # <<>>
  => /\ \A l \in Locs : fs[l] # ImportCall.pre[l] => InsideTarget(l)
     /\ \A i \in 1..Len(ImportCall.written) : InsideTarget(ImportCall.written[i][2])

\* The locations of the entries of a log of writes or of skips.
LocsOf(log) == {log[i][2] : i \in 1..Len(log)}

\* C13 as stated: a failure to write one file during restoration is
\* recovered locally: the import still completes with a summary instead of
\* failing as a whole, and every record whose own target can be written
\* (it holds no directory) is processed, that is written or skipped,
\* whatever happened to the records before it.
C13_WriteFailureRecovered ==
  (imp # <<>> /\ ReachedRestore(ImportCall))
  => /\ ImportCall.status = "ok"
     /\ \A i \in 1..Len(FilesOf(Backup)) :
          LET loc == join(TargetDir, FilesOf(Backup)[i].path)
          IN ImportCall.pre[loc] # Dir
             => loc \in LocsOf(ImportCall.written) \cup LocsOf(ImportCall.skipped)

\* C14: fingerprint is a deterministic function of the identity block and
\* the export timestamp only: two archives with equal identity and equal
\* export timestamp have equal fingerprints whatever their file sections,
\* encrypted flag or version (and so has one archive fingerprinted twice),
\* and two archives with the same identity and different export timestamps
\* have different fingerprints.
C14_Fingerprint ==
  \A i, j \in 1..Len(fps) :
    fps[i].backup.agent = fps[j].backup.agent
    => (fps[i].fingerprint = fps[j].fingerprint
        <=> fps[i].backup.exported = fps[j].backup.exported)

\* Three fingerprints of one identity: the first two archives share the
\* export timestamp and differ in version, encrypted flag and credentials
\* section, the third has another export timestamp.
C14_Witness ==
  /\ Len(fps) = 3
  /\ fps[1].backup.agent = fps[2].backup.agent
  /\ fps[1].backup.agent = fps[3].backup.agent
  /\ fps[1].backup.exported = fps[2].backup.exported
  /\ fps[1].backup.version # fps[2].backup.version
  /\ fps[1].backup.encrypted # fps[2].backup.encrypted
  /\ fps[1].backup.credentials # fps[2].backup.credentials
  /\ fps[1].backup.exported # fps[3].backup.exported
  /\ fps[1].fingerprint = fps[2].fingerprint
  /\ fps[1].fingerprint # fps[3].fingerprint

\* The second of two imports, run after the first returned its summary.
SecondImport == imp[2]

\* C15: import is idempotent on the target directory: for every archive
\* (one where several records name the same relative path included) and
\* either value of overwrite, the same import run a second time with the
\* same options, after a successful first run, returns its summary again
\* and leaves every location with the content it had after the first run.
C15_ImportIdempotent ==
  Len(imp) = 2
  => /\ SecondImport.status = "ok"
     /\ \A l \in Locs : fs[l] = SecondImport.pre[l]

\* Two runs of an import whose archive names one path in two records with
\* two contents; the first run wrote there.
C15_Witness ==
  /\ Len(imp) = 2
  /\ Len(FilesOf(Backup)) = 2
  /\ FilesOf(Backup)[1].path = FilesOf(Backup)[2].path
  /\ FilesOf(Backup)[1].content # FilesOf(Backup)[2].content
  /\ InsideTarget(join(TargetDir, FilesOf(Backup)[1].path))
  /\ ImportCall.written # <<>>
  /\ fs[join(TargetDir, FilesOf(Backup)[1].path)] \in Contents

====
